---------------------------- MODULE Spec2Model ----------------------------
(***************************************************************************)
(* A model of the live MODIS AOD fetch pipeline of src/src/modis_live.py:  *)
(* geocode_city, search_granule, _earthdata_auth, download_granule,        *)
(* read_aod_from_hdf and the orchestrator fetch_live_aod.                  *)
(*                                                                         *)
(* Each function is exercised by a specification of its own (SpecGeocode,  *)
(* SpecSearch, SpecDownload, SpecRace, SpecExtract) and the orchestrator,  *)
(* which calls all of them, by SpecFetch.  A specification leaves the      *)
(* variables of the others at their idle values.                           *)
(***************************************************************************)
EXTENDS Integers, Sequences, FiniteSets, TLC

VARIABLES
    \* read_aod_from_hdf
    exPc,       \* "ready" before the call, "done" after it
    hdf,        \* the opened file: cells (raw, lat, lon) in flat order, attributes
    tgt,        \* the target coordinates (lat, lon)
    pyhdf,      \* whether "from pyhdf.SD import SD, SDC" succeeds
    aodOut,     \* what the call produced: a value or a raised error
    \* search_granule
    srPc,       \* "ready" before the call, "done" after it
    cmrResp,    \* the response of the CMR search: status and feed entries
    srOut,      \* what the call produced: a granule or a raised error
    \* download_granule
    cache,      \* the files under CACHE_DIR: file name -> content
    calls,      \* per call: position, url, requests sent, status, offset, outcome
    \* geocode_city
    clock,      \* the time, in ticks
    gcCalls,    \* the number of geocode_city calls made so far
    reqLog,     \* the times at which a request went to the geocoding service
    gcOut,      \* what the latest call produced
    \* fetch_live_aod
    fPc,        \* the position of the orchestrator
    fIn,        \* its inputs and environment: credentials, out_csv, granule file
    fLoc,       \* the locals lat/lon, granule, hdf_path, aod, once assigned
    stages,     \* the stages invoked so far, in order
    net,        \* the network requests issued so far, in order
    fCache,     \* the files under CACHE_DIR during the run
    sink,       \* the rows written to out_csv
    fOut        \* what the call produced: the payload or a raised error

exVars == <<exPc, hdf, tgt, pyhdf, aodOut>>
srVars == <<srPc, cmrResp, srOut>>
dlVars == <<cache, calls>>
gcVars == <<clock, gcCalls, reqLog, gcOut>>
fVars == <<fPc, fIn, fLoc, stages, net, fCache, sink, fOut>>

vars == <<exVars, srVars, dlVars, gcVars, fVars>>

---------------------------------------------------------------------------
(* Results of a call: a returned value or a raised exception.              *)

Ok(v) == [kind |-> "ok", val |-> v]
\* ModisLiveError is the only exception class the module defines; val keeps
\* the raise sites apart.
ModisLiveError(msg) == [kind |-> "ModisLiveError", val |-> msg]
\* Exceptions of the libraries: requests' HTTPError (raise_for_status) and
\* the error iter_content raises when the stream breaks.
HTTPError(status) == [kind |-> "HTTPError", val |-> status]
StreamError == [kind |-> "ChunkedEncodingError", val |-> "stream broken"]
NoResult == [kind |-> "none", val |-> "none"]

---------------------------------------------------------------------------
(* Strings the code inspects are sequences of tokens, so that endswith,    *)
(* split and slicing are computed and not assumed.                         *)

EndsWith(s, suffix) == Len(s) > 0 /\ s[Len(s)] = suffix

Min(S) == CHOOSE x \in S : \A y \in S : x <= y
Max(S) == CHOOSE x \in S : \A y \in S : x >= y

\* requests.Response.raise_for_status raises HTTPError for 4xx and 5xx only.
RaisesForStatus(status) == 400 <= status /\ status < 600

---------------------------------------------------------------------------
(* search_granule                                                          *)

\* Bound: the longest link list of an entry.
MaxLinks == 2

\* href values: two granule files, the second also with a query string, a
\* metadata file, and "" for a link without href.
Hrefs == { <<"/", "g", ".hdf">>, <<"/", "h", ".hdf">>,
           <<"/", "g", ".hdf", "?", "t">>, <<"/", "g", ".xml">>, <<>> }
\* rel values: a data relation, a metadata relation, "" for a link without rel.
Rels == { <<"ns", "/data#">>, <<"ns", "/metadata#">>, <<>> }
Links == [href : Hrefs, rel : Rels]
LinkLists == UNION {[1..n -> Links] : n \in 0..MaxLinks}
Entries == [title : {"G1"}, time_start : {<<"2024-03-10", "T10:30:00Z">>}, links : LinkLists]
\* page_size=1: the feed holds no entry or one.
CmrResponses == [status : {200, 500}, entry : {<<>>} \cup {<<e>> : e \in Entries}]

\* Lines 68-72: the first link whose href ends in ".hdf", else "".
FirstHdfHref(links) ==
    LET hits == {i \in 1..Len(links) : EndsWith(links[i].href, ".hdf")}
    IN  IF hits = {} THEN <<>> ELSE links[Min(hits)].href

\* Lines 74-77: the href of the first link whose rel ends in "/data#", else "".
FirstDataHref(links) ==
    LET hits == {i \in 1..Len(links) : EndsWith(links[i].rel, "/data#")}
    IN  IF hits = {} THEN <<>> ELSE links[Min(hits)].href

\* Mutant of SelectUrl: one pass that takes the first link that either
\* ends in ".hdf" or is a data link.
SelectUrlOnePass(links) ==
    LET hits == {i \in 1..Len(links) :
                    EndsWith(links[i].href, ".hdf") \/ EndsWith(links[i].rel, "/data#")}
    IN  IF hits = {} THEN <<>> ELSE links[Min(hits)].href

\* Lines 67-77
SelectUrl(links) ==
    IF FirstHdfHref(links) # <<>> THEN FirstHdfHref(links) ELSE FirstDataHref(links)

search_granule(resp) ==
    IF RaisesForStatus(resp.status)
    THEN HTTPError(resp.status)
    ELSE IF resp.entry = <<>>
    THEN ModisLiveError("No MODIS granules found")
    ELSE LET entry == resp.entry[1]
             url == SelectUrl(entry.links)
         IN  IF url = <<>>
             THEN ModisLiveError("No downloadable HDF link found")
             ELSE Ok([granule_id |-> entry.title,
                      time_start |-> entry.time_start,
                      download_url |-> url])

---------------------------------------------------------------------------
(* read_aod_from_hdf                                                       *)

\* Bounds of the raster inputs.
NCells == 3
MaxCoord == 1

Coords == 0..MaxCoord
\* Raw stored AOD values; -2 doubles as the _FillValue sentinel when the
\* attribute is present, and -1 * 2 + 0 = -2 makes a scaled value collide
\* with the sentinel.
RawValues == {-2, -1, 1}
Absent == [present |-> FALSE, v |-> 0]
Attr(x) == [present |-> TRUE, v |-> x]
ScaleAttrs == {Absent, Attr(2)}
OffsetAttrs == {Absent, Attr(1)}
FillAttrs == {Absent, Attr(-2)}

CellSet == [raw : RawValues, lat : Coords, lon : Coords]
\* The cells of a geolocated grid lie at pairwise different coordinates.
Grids == {g \in [1..NCells -> CellSet] :
            \A i, j \in 1..NCells :
                i # j => <<g[i].lat, g[i].lon>> # <<g[j].lat, g[j].lon>>}
HdfFiles == [cells : Grids,
             scale_factor : ScaleAttrs,
             add_offset : OffsetAttrs,
             fill : FillAttrs]

\* attrs.get(name, default)
AttrGet(a, default) == IF a.present THEN a.v ELSE default

\* _apply_scale on one element: data * float(scale) + float(offset)
ApplyScale(raw, f) ==
    raw * AttrGet(f.scale_factor, 1) + AttrGet(f.add_offset, 0)

NaN == [nan |-> TRUE, v |-> 0]
Num(x) == [nan |-> FALSE, v |-> x]

\* aod after line 124 and the np.where of lines 131-133: the comparison
\* with the sentinel is made on the already scaled array.
MaskedAod(f, i) ==
    LET a == ApplyScale(f.cells[i].raw, f)
    IN  IF f.fill.present /\ a = f.fill.v THEN NaN ELSE Num(a)

\* dist = (lat_arr - lat) ** 2 + (lon_arr - lon) ** 2
Dist(f, t, i) ==
    (f.cells[i].lat - t.lat) * (f.cells[i].lat - t.lat)
      + (f.cells[i].lon - t.lon) * (f.cells[i].lon - t.lon)

\* np.nanargmin(dist): the first flat index of the minimum; dist holds no
\* NaN because it is computed from the coordinate arrays only.
NanArgMin(f, t) ==
    CHOOSE i \in 1..NCells :
        /\ \A j \in 1..NCells : Dist(f, t, i) <= Dist(f, t, j)
        /\ \A j \in 1..(i - 1) : Dist(f, t, j) > Dist(f, t, i)

read_aod_from_hdf(f, t, importOk) ==
    IF ~importOk
    THEN ModisLiveError("pyhdf is required")
    ELSE LET value == MaskedAod(f, NanArgMin(f, t))
         IN  IF value.nan
             THEN ModisLiveError("AOD is missing at the nearest pixel")
             ELSE Ok(value.v)

---------------------------------------------------------------------------
(* download_granule                                                        *)

\* Bounds: the concurrent calls and the chunks of a response body.
NCalls == 2
NChunks == 2

\* Three URLs of one granule file (plain, with a query string, with a "/"
\* inside the query string) and a URL that ends in "/".
DlUrls == { <<"/", "g", ".hdf">>,
            <<"/", "g", ".hdf", "?", "t">>,
            <<"/", "g", ".hdf", "?", "/", "t">>,
            <<"/", "d", "/">> }
\* Final response statuses; 304 stands for the statuses below 400 that are
\* not 200, which raise_for_status lets pass.
Statuses == {200, 304, 401, 500}

\* s.split(sep)[0]: the part before the first sep.
SplitFirst(s, sep) ==
    LET hits == {i \in 1..Len(s) : s[i] = sep}
    IN  IF hits = {} THEN s ELSE SubSeq(s, 1, Min(hits) - 1)

\* s.split(sep)[-1]: the part after the last sep.
SplitLast(s, sep) ==
    LET hits == {i \in 1..Len(s) : s[i] = sep}
    IN  IF hits = {} THEN s ELSE SubSeq(s, Max(hits) + 1, Len(s))

\* Mutant of Filename: the two splits in the other order.
FilenameSlashFirst(url) == SplitFirst(SplitLast(url, "/"), "?")

\* Line 90: filename = url.split("?")[0].split("/")[-1]
Filename(url) == SplitLast(SplitFirst(url, "?"), "/")

\* Line 91: out_path = CACHE_DIR / filename; CACHE_DIR / "" is CACHE_DIR.
OutPath(url) == <<"data/modis_cache">> \o Filename(url)

\* Line 93: out_path.exists(), after the mkdir of line 89 made CACHE_DIR.
Exists(files, url) == Filename(url) = <<>> \/ Filename(url) \in DOMAIN files

\* Mutant of StatusOutcome: raise_for_status before the test for 401.
StatusOutcomeGenericFirst(status) ==
    IF RaisesForStatus(status)
    THEN HTTPError(status)
    ELSE IF status = 401
    THEN ModisLiveError("Earthdata authentication failed (401)")
    ELSE Ok("streaming")

\* Lines 97-99: 401 is tested before raise_for_status.
StatusOutcome(status) ==
    IF status = 401
    THEN ModisLiveError("Earthdata authentication failed (401)")
    ELSE IF RaisesForStatus(status)
    THEN HTTPError(status)
    ELSE Ok("streaming")

\* The body the server streams for a URL, in chunks; only 200 carries one.
Body(url) == [i \in 1..NChunks |-> <<Filename(url), i>>]
ResponseBody(url, status) == IF status = 200 THEN Body(url) ELSE <<>>

\* Line 100: open(out_path, "wb") creates the file or truncates it.
OpenWb(files, url) ==
    [n \in DOMAIN files \cup {Filename(url)} |->
        IF n = Filename(url) THEN <<>> ELSE files[n]]

\* Mutant of WriteAt: the file is opened for appending, every write goes
\* to the end of the file.
WriteAtEnd(content, pos, chunk) == Append(content, chunk)

\* Line 103: f.write(chunk) at the writer's own offset; a write past the
\* end of a file another writer truncated leaves a hole before it.
Hole == <<>>
WriteAt(content, pos, chunk) ==
    IF pos <= Len(content)
    THEN [content EXCEPT ![pos] = chunk]
    ELSE content \o [i \in 1..(pos - Len(content) - 1) |-> Hole] \o <<chunk>>

WriteChunk(files, url, pos, chunk) ==
    [files EXCEPT ![Filename(url)] = WriteAt(@, pos, chunk)]

\* Mutant of AfterInterrupt: the file cut short is removed.
AfterInterruptUnlink(files, url) ==
    [n \in DOMAIN files \ {Filename(url)} |-> files[n]]

\* Lines 100-103 when iter_content raises: the with blocks close the file
\* and the response; nothing removes what was written.
AfterInterrupt(files, url) == files

---------------------------------------------------------------------------
(* _earthdata_auth                                                         *)

\* os.getenv gives None for an unset variable; None and "" are both falsy.
EnvValues == {"unset", "", "secret"}
Falsy(v) == v \in {"unset", ""}

_earthdata_auth(env) ==
    IF Falsy(env.username) \/ Falsy(env.password)
    THEN ModisLiveError("EARTHDATA_USERNAME and EARTHDATA_PASSWORD are required")
    ELSE Ok(<<env.username, env.password>>)

---------------------------------------------------------------------------
(* geocode_city                                                            *)

\* Bounds: ticks per second, the last tick, the calls of one process.
TicksPerSecond == 2
MaxClock == 6
MaxGeocodes == 3
\* Line 34: RateLimiter(geolocator.geocode, min_delay_seconds=1)
min_delay_seconds == 1

\* geopy's RateLimiter keeps the time of its last call in the instance;
\* a new instance has none.
NewRateLimiter == [last_call |-> -1]

\* RateLimiter: how long a call sleeps before it sends its request.
SlotWait(limiter, now) ==
    IF limiter.last_call < 0
    THEN 0
    ELSE LET wait == min_delay_seconds * TicksPerSecond - (now - limiter.last_call)
         IN  IF wait > 0 THEN wait ELSE 0

\* Lines 33-34: each call builds its own Nominatim and its own RateLimiter.
LimiterOfCall == NewRateLimiter

\* What the geocoding service answers: a location or nothing.
GeoAnswers == {[found |-> TRUE, latitude |-> 0, longitude |-> 1],
               [found |-> FALSE, latitude |-> 0, longitude |-> 0]}

\* Lines 36-38
GeocodeResult(location) ==
    IF ~location.found
    THEN ModisLiveError("Unable to geocode city")
    ELSE Ok([lat |-> location.latitude, lon |-> location.longitude])

---------------------------------------------------------------------------
(* The state machines.  Idle values first: what a specification leaves a   *)
(* function's variables at when it does not exercise that function.        *)

ExIdle ==
    /\ exPc = "idle" /\ hdf = <<>> /\ tgt = <<>> /\ pyhdf = TRUE /\ aodOut = NoResult
SrIdle ==
    /\ srPc = "idle" /\ cmrResp = <<>> /\ srOut = NoResult
DlIdle ==
    /\ cache = <<>> /\ calls = <<>>
GcIdle ==
    /\ clock = 0 /\ gcCalls = 0 /\ reqLog = <<>> /\ gcOut = NoResult
FIdle ==
    /\ fPc = "idle" /\ fIn = <<>> /\ fLoc = <<>> /\ stages = <<>> /\ net = <<>>
    /\ fCache = <<>> /\ sink = <<>> /\ fOut = NoResult

---------------------------------------------------------------------------
(* read_aod_from_hdf, called once on any file and target                   *)

ExInit ==
    /\ exPc = "ready"
    /\ hdf \in HdfFiles
    /\ tgt \in [lat : Coords, lon : Coords]
    /\ pyhdf \in BOOLEAN
    /\ aodOut = NoResult

ReadAod ==
    /\ exPc = "ready"
    /\ aodOut' = read_aod_from_hdf(hdf, tgt, pyhdf)
    /\ exPc' = "done"
    /\ UNCHANGED <<hdf, tgt, pyhdf, srVars, dlVars, gcVars, fVars>>

InitExtract == ExInit /\ SrIdle /\ DlIdle /\ GcIdle /\ FIdle
SpecExtract == InitExtract /\ [][ReadAod]_vars

---------------------------------------------------------------------------
(* search_granule, called once on any response                             *)

SrInit ==
    /\ srPc = "ready"
    /\ cmrResp \in CmrResponses
    /\ srOut = NoResult

SearchGranule ==
    /\ srPc = "ready"
    /\ srOut' = search_granule(cmrResp)
    /\ srPc' = "done"
    /\ UNCHANGED <<cmrResp, exVars, dlVars, gcVars, fVars>>

InitSearch == SrInit /\ ExIdle /\ DlIdle /\ GcIdle /\ FIdle
SpecSearch == InitSearch /\ [][SearchGranule]_vars

---------------------------------------------------------------------------
(* download_granule, NCalls calls that interleave on one cache directory   *)

Calls == 1..NCalls
\* found records what the lookup of line 93 met: nothing, the directory, or
\* a file with its content then and the number of calls writing it then.
Unchecked == [state |-> "unchecked", content |-> <<>>, writers |-> 0]
IdleCall == [pc |-> "idle", url |-> <<>>, found |-> Unchecked, sent |-> 0,
             status |-> 0, off |-> 0, out |-> NoResult]

Lookup(files, all, u) ==
    IF Filename(u) = <<>>
    THEN [state |-> "dir", content |-> <<>>, writers |-> 0]
    ELSE IF Filename(u) \in DOMAIN files
    THEN [state |-> "file", content |-> files[Filename(u)],
          writers |-> Cardinality({d \in DOMAIN all :
                          all[d].pc = "write" /\ Filename(all[d].url) = Filename(u)})]
    ELSE [state |-> "absent", content |-> <<>>, writers |-> 0]

\* What earlier runs may have left under CACHE_DIR: nothing, a whole file,
\* a file cut short.
EmptyCache == <<>>
InitialCaches ==
    { EmptyCache,
      [n \in {<<"g", ".hdf">>} |-> Body(<<"/", "g", ".hdf">>)],
      [n \in {<<"g", ".hdf">>} |-> SubSeq(Body(<<"/", "g", ".hdf">>), 1, 1)] }

DlInit ==
    /\ cache \in InitialCaches
    /\ calls = [c \in Calls |-> IdleCall]

\* Lines 89-94: the call is made, the cache is looked up.
DlStart(c, u) ==
    /\ calls[c].pc = "idle"
    /\ calls' = [calls EXCEPT ![c] =
                    IF Exists(cache, u)
                    THEN [@ EXCEPT !.pc = "done", !.url = u, !.out = Ok(OutPath(u)),
                                   !.found = Lookup(cache, calls, u)]
                    ELSE [@ EXCEPT !.pc = "get", !.url = u,
                                   !.found = Lookup(cache, calls, u)]]
    /\ UNCHANGED <<cache, exVars, srVars, gcVars, fVars>>

\* Lines 96-99: the request goes out and a response with status st arrives.
DlRequest(c, st) ==
    /\ calls[c].pc = "get"
    /\ calls' = [calls EXCEPT ![c] =
                    IF StatusOutcome(st).kind = "ok"
                    THEN [@ EXCEPT !.pc = "open", !.sent = @ + 1, !.status = st]
                    ELSE [@ EXCEPT !.pc = "done", !.sent = @ + 1, !.status = st,
                                   !.out = StatusOutcome(st)]]
    /\ UNCHANGED <<cache, exVars, srVars, gcVars, fVars>>

\* Line 100
DlOpen(c) ==
    /\ calls[c].pc = "open"
    /\ cache' = OpenWb(cache, calls[c].url)
    /\ calls' = [calls EXCEPT ![c].pc = "write", ![c].off = 0]
    /\ UNCHANGED <<exVars, srVars, gcVars, fVars>>

\* Lines 101-103: one chunk
DlWrite(c) ==
    LET body == ResponseBody(calls[c].url, calls[c].status)
    IN  /\ calls[c].pc = "write"
        /\ calls[c].off < Len(body)
        /\ cache' = WriteChunk(cache, calls[c].url, calls[c].off + 1,
                               body[calls[c].off + 1])
        /\ calls' = [calls EXCEPT ![c].off = @ + 1]
        /\ UNCHANGED <<exVars, srVars, gcVars, fVars>>

\* Lines 101-103: the stream breaks before the whole body is written.
DlInterrupt(c) ==
    LET body == ResponseBody(calls[c].url, calls[c].status)
    IN  /\ calls[c].pc = "write"
        /\ calls[c].off < Len(body)
        /\ cache' = AfterInterrupt(cache, calls[c].url)
        /\ calls' = [calls EXCEPT ![c].pc = "done", ![c].out = StreamError]
        /\ UNCHANGED <<exVars, srVars, gcVars, fVars>>

\* Line 104: the body is through, the path is returned.
DlReturn(c) ==
    LET body == ResponseBody(calls[c].url, calls[c].status)
    IN  /\ calls[c].pc = "write"
        /\ calls[c].off = Len(body)
        /\ calls' = [calls EXCEPT ![c].pc = "done",
                                  ![c].out = Ok(OutPath(calls[c].url))]
        /\ UNCHANGED <<cache, exVars, srVars, gcVars, fVars>>

DlNext ==
    \E c \in Calls :
        \/ \E u \in DlUrls : DlStart(c, u)
        \/ \E st \in Statuses : DlRequest(c, st)
        \/ DlOpen(c)
        \/ DlWrite(c)
        \/ DlInterrupt(c)
        \/ DlReturn(c)

InitDownload == DlInit /\ ExIdle /\ SrIdle /\ GcIdle /\ FIdle
SpecDownload == InitDownload /\ [][DlNext]_vars

\* The race: every call is for the same URL, which is not cached; every
\* response is a 200 whose stream runs to its end.
RaceInit ==
    /\ cache = EmptyCache
    /\ calls = [c \in Calls |-> IdleCall]

RaceStart(c) ==
    \E u \in {x \in DlUrls : Filename(x) # <<>>} :
        /\ \A d \in Calls : calls[d].pc # "idle" => calls[d].url = u
        /\ DlStart(c, u)

RaceNext ==
    \E c \in Calls :
        \/ RaceStart(c)
        \/ DlRequest(c, 200)
        \/ DlOpen(c)
        \/ DlWrite(c)
        \/ DlReturn(c)

InitRace == RaceInit /\ ExIdle /\ SrIdle /\ GcIdle /\ FIdle
SpecRace == InitRace /\ [][RaceNext]_vars

---------------------------------------------------------------------------
(* geocode_city, called up to MaxGeocodes times by one process             *)

GcInit ==
    /\ clock = 0 /\ gcCalls = 0 /\ reqLog = <<>> /\ gcOut = NoResult

Tick ==
    /\ clock < MaxClock
    /\ clock' = clock + 1
    /\ UNCHANGED <<gcCalls, reqLog, gcOut, exVars, srVars, dlVars, fVars>>

\* Lines 33-38: the limiter is built, waits for its slot, the request goes.
GeocodeCity(answer) ==
    LET sendAt == clock + SlotWait(LimiterOfCall, clock)
    IN  /\ gcCalls < MaxGeocodes
        /\ sendAt <= MaxClock
        /\ clock' = sendAt
        /\ reqLog' = Append(reqLog, sendAt)
        /\ gcOut' = GeocodeResult(answer)
        /\ gcCalls' = gcCalls + 1
        /\ UNCHANGED <<exVars, srVars, dlVars, fVars>>

GcNext == Tick \/ \E a \in GeoAnswers : GeocodeCity(a)

InitGeocode == GcInit /\ ExIdle /\ SrIdle /\ DlIdle /\ FIdle
SpecGeocode == InitGeocode /\ [][GcNext]_vars

---------------------------------------------------------------------------
(* fetch_live_aod, called once; its stages run one after the other         *)

\* download_granule run from its first line to its last with nothing else
\* in between: the response has status st and its stream breaks after cut
\* chunks (never, when cut is the length of the body).
RECURSIVE WriteChunks(_, _, _, _)
WriteChunks(files, url, body, n) ==
    IF n = 0
    THEN files
    ELSE WriteChunk(WriteChunks(files, url, body, n - 1), url, n, body[n])

download_granule(files, url, st, cut) ==
    IF Exists(files, url)
    THEN [files |-> files, requests |-> 0, out |-> Ok(OutPath(url))]
    ELSE IF StatusOutcome(st).kind # "ok"
    THEN [files |-> files, requests |-> 1, out |-> StatusOutcome(st)]
    ELSE LET body == ResponseBody(url, st)
             n == IF cut < Len(body) THEN cut ELSE Len(body)
             written == WriteChunks(OpenWb(files, url), url, body, n)
         IN  IF n < Len(body)
             THEN [files |-> AfterInterrupt(written, url), requests |-> 1,
                   out |-> StreamError]
             ELSE [files |-> written, requests |-> 1, out |-> Ok(OutPath(url))]

\* The rasters a granule file may decode to, cells in row-major order: the
\* second cell, where the geocoded location lies, holds a measurement or
\* the sentinel.
GranuleFile(raw1) ==
    [cells |-> [i \in 1..NCells |->
                    [raw |-> IF i = 2 THEN raw1 ELSE 1,
                     lat |-> (i - 1) \div (MaxCoord + 1),
                     lon |-> (i - 1) % (MaxCoord + 1)]],
     scale_factor |-> Absent, add_offset |-> Absent, fill |-> Attr(-2)]
FetchFiles == {GranuleFile(1), GranuleFile(-2)}

\* The search responses of a run: an error status, no entry, an entry with
\* no usable link, an entry with a granule link, an entry whose data link
\* ends in "/".
EntryWith(links) ==
    [title |-> "G1", time_start |-> <<"2024-03-10", "T10:30:00Z">>, links |-> links]
FetchResponses ==
    { [status |-> 500, entry |-> <<>>],
      [status |-> 200, entry |-> <<>>],
      [status |-> 200, entry |-> <<EntryWith(
          <<[href |-> <<"/", "g", ".xml">>, rel |-> <<"ns", "/metadata#">>]>>)>>],
      [status |-> 200, entry |-> <<EntryWith(
          <<[href |-> <<"/", "g", ".xml">>, rel |-> <<"ns", "/metadata#">>],
            [href |-> <<"/", "g", ".hdf">>, rel |-> <<"ns", "/data#">>]>>)>>],
      [status |-> 200, entry |-> <<EntryWith(
          <<[href |-> <<"/", "d", "/">>, rel |-> <<"ns", "/data#">>]>>)>>] }

Unset == NoResult
NoLocals == [geo |-> Unset, granule |-> Unset, auth |-> Unset,
             path |-> Unset, aod |-> Unset]

FInit ==
    /\ fPc = "geocode"
    /\ fIn \in [env : [username : EnvValues, password : EnvValues],
                out_csv : BOOLEAN,
                file : FetchFiles]
    /\ fLoc = NoLocals
    /\ stages = <<>>
    /\ net = <<>>
    /\ fCache \in InitialCaches
    /\ sink = <<>>
    /\ fOut = NoResult

\* Mutant of NextPc: the exception of a stage is swallowed.
NextPcSwallow(out, okPc) == okPc

\* An exception raised by a stage is not caught (lines 149-153): it ends
\* the call; otherwise the next statement runs.
NextPc(out, okPc) == IF out.kind = "ok" THEN okPc ELSE "failed"
Raised(out, before) == IF out.kind = "ok" THEN before ELSE out

\* Line 149
FGeocode(answer) ==
    LET out == GeocodeResult(answer)
    IN  /\ fPc = "geocode"
        /\ stages' = Append(stages, "geocode")
        /\ net' = Append(net, "geocode")
        /\ fLoc' = [fLoc EXCEPT !.geo = out]
        /\ fPc' = NextPc(out, "search")
        /\ fOut' = Raised(out, fOut)
        /\ UNCHANGED <<fIn, fCache, sink, exVars, srVars, dlVars, gcVars>>

\* Line 150
FSearch(resp) ==
    LET out == search_granule(resp)
    IN  /\ fPc = "search"
        /\ stages' = Append(stages, "search")
        /\ net' = Append(net, "search")
        /\ fLoc' = [fLoc EXCEPT !.granule = out]
        /\ fPc' = NextPc(out, "auth")
        /\ fOut' = Raised(out, fOut)
        /\ UNCHANGED <<fIn, fCache, sink, exVars, srVars, dlVars, gcVars>>

\* Line 151
FAuth ==
    LET out == _earthdata_auth(fIn.env)
    IN  /\ fPc = "auth"
        /\ fLoc' = [fLoc EXCEPT !.auth = out]
        /\ fPc' = NextPc(out, "download")
        /\ fOut' = Raised(out, fOut)
        /\ UNCHANGED <<fIn, stages, net, fCache, sink, exVars, srVars, dlVars, gcVars>>

\* Line 152
FDownload(st, cut) ==
    LET r == download_granule(fCache, fLoc.granule.val.download_url, st, cut)
    IN  /\ fPc = "download"
        /\ stages' = Append(stages, "download")
        /\ net' = IF r.requests > 0 THEN Append(net, "download") ELSE net
        /\ fCache' = r.files
        /\ fLoc' = [fLoc EXCEPT !.path = r.out]
        /\ fPc' = NextPc(r.out, "extract")
        /\ fOut' = Raised(r.out, fOut)
        /\ UNCHANGED <<fIn, sink, exVars, srVars, dlVars, gcVars>>

\* Line 153: the file at hdf_path is opened and read.  Only a whole file is
\* known to open; a directory does not, a file cut short may or may not.
HDF4Error == [kind |-> "HDF4Error", val |-> "cannot open"]
FExtract(opens, importOk) ==
    LET url == fLoc.granule.val.download_url
        whole == Filename(url) # <<>> /\ fCache[Filename(url)] = Body(url)
        out == IF importOk /\ ~opens
               THEN HDF4Error
               ELSE read_aod_from_hdf(fIn.file, fLoc.geo.val, importOk)
    IN  /\ fPc = "extract"
        /\ whole => opens
        /\ Filename(url) = <<>> => ~opens
        /\ stages' = Append(stages, "extract")
        /\ fLoc' = [fLoc EXCEPT !.aod = out]
        /\ fPc' = NextPc(out, "assemble")
        /\ fOut' = Raised(out, fOut)
        /\ UNCHANGED <<fIn, net, fCache, sink, exVars, srVars, dlVars, gcVars>>

\* granule["time_start"][:10] if granule["time_start"] else ""
DateOf(time_start) == IF time_start = <<>> THEN <<>> ELSE <<time_start[1]>>

\* Lines 155-163
Payload(city, loc) ==
    [city |-> city,
     date |-> DateOf(loc.granule.val.time_start),
     latitude |-> loc.geo.val.lat,
     longitude |-> loc.geo.val.lon,
     modis_aod |-> loc.aod.val,
     granule_id |-> loc.granule.val.granule_id,
     source_url |-> loc.granule.val.download_url]

\* Lines 155-169
FAssemble ==
    /\ fPc = "assemble"
    /\ sink' = IF fIn.out_csv THEN Append(sink, Payload("Testville", fLoc)) ELSE sink
    /\ fOut' = Ok(Payload("Testville", fLoc))
    /\ fPc' = "done"
    /\ UNCHANGED <<fIn, fLoc, stages, net, fCache, exVars, srVars, dlVars, gcVars>>

FNext ==
    \/ \E a \in GeoAnswers : FGeocode(a)
    \/ \E r \in FetchResponses : FSearch(r)
    \/ FAuth
    \/ \E st \in Statuses, cut \in 0..NChunks : FDownload(st, cut)
    \/ \E opens, importOk \in BOOLEAN : FExtract(opens, importOk)
    \/ FAssemble

InitFetch == FInit /\ ExIdle /\ SrIdle /\ DlIdle /\ GcIdle
SpecFetch == InitFetch /\ [][FNext]_vars

---------------------------------------------------------------------------
(* Claims on read_aod_from_hdf (SpecExtract)                               *)

\* A cell is missing when its raw stored value equals the _FillValue sentinel.
IsMissing(f, i) == f.fill.present /\ f.cells[i].raw = f.fill.v
ValidCells(f) == {i \in 1..NCells : ~IsMissing(f, i)}
NearestValid(f, t) ==
    {i \in ValidCells(f) : \A j \in ValidCells(f) : Dist(f, t, i) <= Dist(f, t, j)}

\* C1: whenever the grid has a non-missing cell, the call returns the value
\* of a non-missing cell at minimum squared planar distance from the target,
\* also when the geometrically nearest cell is missing.
C1_NearestNonMissing ==
    (exPc = "done" /\ pyhdf /\ ValidCells(hdf) # {}) =>
        /\ aodOut.kind = "ok"
        /\ \E i \in NearestValid(hdf, tgt) :
              aodOut.val = ApplyScale(hdf.cells[i].raw, hdf)

\* C2: the call never returns a value derived from a cell whose raw value is
\* the sentinel, and fails with an error when every cell is the sentinel.
C2_NeverFillDerived ==
    (exPc = "done" /\ pyhdf) =>
        /\ aodOut.kind = "ok" => ~IsMissing(hdf, NanArgMin(hdf, tgt))
        /\ ValidCells(hdf) = {} => aodOut.kind = "ModisLiveError"

---------------------------------------------------------------------------
(* Claims on download_granule (SpecDownload, SpecRace)                     *)

\* The cache key as the specification words it: the basename of the URL's
\* path, the query string stripped.
RECURSIVE StripQuery(_)
StripQuery(u) ==
    IF u = <<>> \/ Head(u) = "?" THEN <<>> ELSE <<Head(u)>> \o StripQuery(Tail(u))
RECURSIVE Basename(_)
Basename(q) ==
    IF q = <<>> \/ q[Len(q)] = "/"
    THEN <<>>
    ELSE Basename(SubSeq(q, 1, Len(q) - 1)) \o <<q[Len(q)]>>
CacheKey(u) == Basename(StripQuery(u))
CachePath(u) == <<"data/modis_cache">> \o CacheKey(u)
Cached(files, u) == CacheKey(u) \in DOMAIN files

\* A step in which call c is made with URL u.
Made(c, u) == calls[c].pc = "idle" /\ calls'[c].pc # "idle" /\ calls'[c].url = u

\* C3: once a file named by the URL's basename is in the cache, it stays;
\* a call made for that URL then returns the cache path at once and sends
\* no request, now or later; a call sends a request only after it found
\* no entry at its lookup.
C3_CachedNoNetwork ==
    [][ /\ \A u \in DlUrls : Cached(cache, u) => Cached(cache', u)
        /\ \A c \in Calls, u \in DlUrls :
              (Made(c, u) /\ Cached(cache, u)) =>
                  /\ calls'[c].pc = "done"
                  /\ calls'[c].out = Ok(CachePath(u))
                  /\ calls'[c].sent = 0
        /\ \A c \in Calls, u \in DlUrls :
              (Made(c, u) /\ calls'[c].pc = "get") => ~Cached(cache, u)
        /\ \A c \in Calls :
              /\ calls'[c].sent # calls[c].sent => calls[c].pc = "get"
              /\ (calls'[c].pc = "get" /\ calls[c].pc # "get") => calls[c].pc = "idle"
              /\ calls[c].pc = "done" => calls'[c] = calls[c]
      ]_vars

\* C3 witness: one call downloaded the file, another call, for a URL with
\* the same basename and a query string, got the path without a request.
C3_Witness ==
    \E c, d \in Calls :
        /\ calls[d].pc = "done" /\ calls[d].sent = 1 /\ calls[d].out.kind = "ok"
        /\ calls[d].url = <<"/", "g", ".hdf">>
        /\ calls[c].pc = "done" /\ calls[c].sent = 0
        /\ calls[c].url = <<"/", "g", ".hdf", "?", "/", "t">>
        /\ calls[c].out = Ok(<<"data/modis_cache", "g", ".hdf">>)

Answered(c) == calls[c].pc = "done" /\ calls[c].sent = 1 /\ calls[c].status # 0

Payload200(u) == [i \in 1..NChunks |-> <<CacheKey(u), i>>]
AllDone == \A c \in Calls : calls[c].pc = "done"
Writers == {c \in Calls : calls[c].sent = 1}

C10_PartialFileIsHit ==
    [][ /\ \A c \in Calls :
              (calls[c].pc = "write" /\ calls'[c].out.kind = "ChunkedEncodingError") =>
                  /\ Cached(cache', calls[c].url)
                  /\ cache' = cache
                  /\ calls'[c].pc = "done"
        /\ \A c \in Calls, u \in DlUrls :
              (Made(c, u) /\ Cached(cache, u) /\ cache[CacheKey(u)] # Payload200(u)) =>
                  /\ calls'[c].pc = "done"
                  /\ calls'[c].out = Ok(CachePath(u))
                  /\ calls'[c].sent = 0
                  /\ cache' = cache
      ]_vars

\* C10 witness: a call's stream broke; a call made when no call was writing
\* met the file cut short, and returned its path without a request.
C10_Witness ==
    \E c, d \in Calls :
        /\ calls[c].out.kind = "ChunkedEncodingError"
        /\ calls[d].pc = "done" /\ calls[d].url = calls[c].url
        /\ calls[d].found.state = "file" /\ calls[d].found.writers = 0
        /\ calls[d].found.content # Payload200(calls[d].url)
        /\ calls[d].found.content = cache[CacheKey(calls[d].url)]
        /\ calls[d].out = Ok(CachePath(calls[d].url))
        /\ calls[d].sent = 0

---------------------------------------------------------------------------
(* Claims on search_granule (SpecSearch)                                   *)

TopLinks == cmrResp.entry[1].links
IsHdfLink(i) == EndsWith(TopLinks[i].href, ".hdf")
IsDataLink(i) == EndsWith(TopLinks[i].rel, "/data#")
NoLinkError == ModisLiveError("No downloadable HDF link found")
Selected(href) == srOut.kind = "ok" /\ srOut.val.download_url = href

\* C7: with an entry in the feed, the first link whose href ends in ".hdf"
\* is selected wherever it stands; with no such link the first link whose
\* rel ends in "/data#" is the one used (its href is selected, and the
\* search fails when it has none); with neither the search fails; with no
\* entry the search fails.
C7_LinkPolicy ==
    (srPc = "done" /\ cmrResp.status = 200) =>
        IF cmrResp.entry = <<>>
        THEN srOut = ModisLiveError("No MODIS granules found")
        ELSE /\ \A i \in 1..Len(TopLinks) :
                  (IsHdfLink(i) /\ \A j \in 1..(i - 1) : ~IsHdfLink(j)) =>
                      Selected(TopLinks[i].href)
             /\ \A i \in 1..Len(TopLinks) :
                  ( /\ \A j \in 1..Len(TopLinks) : ~IsHdfLink(j)
                    /\ IsDataLink(i)
                    /\ \A j \in 1..(i - 1) : ~IsDataLink(j) ) =>
                      IF TopLinks[i].href # <<>>
                      THEN Selected(TopLinks[i].href)
                      ELSE srOut = NoLinkError
             /\ (\A j \in 1..Len(TopLinks) : ~IsHdfLink(j) /\ ~IsDataLink(j)) =>
                    srOut = NoLinkError

\* C7 witness: a data link to a metadata file stands before the ".hdf"
\* link, and the ".hdf" link was selected.
C7_Witness ==
    /\ srPc = "done" /\ cmrResp.status = 200 /\ cmrResp.entry # <<>>
    /\ Len(TopLinks) = 2
    /\ TopLinks[1] = [href |-> <<"/", "g", ".xml">>, rel |-> <<"ns", "/data#">>]
    /\ TopLinks[2].href = <<"/", "g", ".hdf">>
    /\ Selected(<<"/", "g", ".hdf">>)

---------------------------------------------------------------------------
(* Claims on geocode_city (SpecGeocode)                                    *)

\* C8: any two consecutive requests to the geocoding service are at least
\* one second apart.
C8_MinDelayBetweenRequests ==
    \A i \in 1..(Len(reqLog) - 1) :
        reqLog[i + 1] - reqLog[i] >= min_delay_seconds * TicksPerSecond

---------------------------------------------------------------------------
(* Claims on fetch_live_aod (SpecFetch)                                    *)

CredentialMissing ==
    fIn.env.username \in {"unset", ""} \/ fIn.env.password \in {"unset", ""}

\* C4: with a credential missing or empty no network request is issued,
\* and the call ends with the configuration error.
C4_NoNetworkBeforeConfigError ==
    CredentialMissing =>
        /\ net = <<>>
        /\ fPc \in {"failed", "done"} =>
              fOut = ModisLiveError("EARTHDATA_USERNAME and EARTHDATA_PASSWORD are required")

StageOrder == <<"geocode", "search", "download", "extract">>
\* The result of each statement of lines 149-153, in order, with the number
\* of stages invoked once it has run.
Steps == <<fLoc.geo, fLoc.granule, fLoc.auth, fLoc.path, fLoc.aod>>
StagesAfter == <<1, 2, 2, 3, 4>>
IsError(r) == r.kind \notin {"ok", "none"}

\* C5: the stages are invoked in the order geocode, search, download,
\* extract, each at most once; a failure ends the call with that error,
\* after it no stage is invoked, nothing is returned or written; a record
\* is returned, and written when out_csv is given, only after all four
\* stages succeeded.
C5_StagesState ==
    /\ \E n \in 0..4 : stages = SubSeq(StageOrder, 1, n)
    /\ \A k \in 1..5 :
          IsError(Steps[k]) =>
              /\ fPc = "failed"
              /\ fOut = Steps[k]
              /\ Len(stages) = StagesAfter[k]
              /\ \A m \in (k + 1)..5 : Steps[m] = Unset
              /\ sink = <<>>
    /\ fPc = "failed" => \E k \in 1..5 : IsError(Steps[k])
    /\ fOut.kind = "ok" =>
          /\ stages = StageOrder
          /\ \A k \in 1..5 : Steps[k].kind = "ok"
          /\ fOut.val.modis_aod = fLoc.aod.val
    /\ sink # <<>> => fIn.out_csv /\ sink = <<fOut.val>> /\ fOut.kind = "ok"
    /\ (fPc = "done" /\ fIn.out_csv) => sink # <<>>

=============================================================================
